---- MODULE Spec2Model ----
(***************************************************************************)
(* The weather agent of src/main.py: the two OpenWeatherMap tools, the     *)
(* tool dispatch, the tool-calling agent loop run_agent and the            *)
(* interactive shell main.                                                 *)
(*                                                                         *)
(* A Python str is a sequence of tokens (pieces of text); str             *)
(* concatenation is \o and the empty str is << >>.  Python values that     *)
(* can be of several types are tagged records [t |-> type, v |-> value].   *)
(***************************************************************************)
EXTENDS Integers, Sequences, FiniteSets, TLC

VARIABLES
    messages,      \* run_agent: the transcript (list of messages)
    iteration,     \* run_agent: the loop variable of range(MAX_ITERATIONS)
    pc,            \* run_agent: position in the function
    response,      \* run_agent: the response of the last model call
    idx,           \* run_agent: position of `for block in response.content`
    tool_results,  \* run_agent: the tool_result blocks collected so far
    outcome,       \* run_agent: how the invocation ended (returned str / raised)
    requests,      \* history: number of client.messages.create calls made
    sent,          \* history: the message list passed to the last model call
    dispatched,    \* history: the process_tool_call calls made, in order
    latitude,      \* environment: is the one arbitrary round still to come
    tool_call,     \* tool harness: the arguments of the last direct tool call
    tool_ret,      \* tool harness: what that call returned or raised
    shell_pc,      \* main: position in the shell loop
    user_input,    \* main: the stripped line read last
    presented,     \* main: what the shell printed last
    invocations    \* history: number of run_agent calls main has made

agent_vars == <<messages, iteration, pc, response, idx, tool_results, outcome,
                requests, sent, dispatched, latitude>>
tool_vars == <<tool_call, tool_ret>>
shell_vars == <<shell_pc, user_input, presented, invocations>>
vars == <<messages, iteration, pc, response, idx, tool_results, outcome,
          requests, sent, dispatched, latitude, tool_call, tool_ret,
          shell_pc, user_input, presented, invocations>>

----------------------------------------------------------------------------
(* Bounds of the model.                                                    *)

\* longest content list (blocks) of one model response
MaxBlocks == 3
\* longest provider forecast list
MaxEntries == 45
\* most run_agent calls of one shell session
MaxInvocations == 2

(* Program constants.                                                      *)
MAX_ITERATIONS == 10
FORECAST_CAP == 40

----------------------------------------------------------------------------
(* Python values.                                                          *)

None == [t |-> "None"]
PyStr(s) == [t |-> "str", v |-> s]
PyInt(n) == [t |-> "int", v |-> n]
PyFloat(n) == [t |-> "float", v |-> n]
PyDict(d) == [t |-> "dict", v |-> d]
PyList(l) == [t |-> "list", v |-> l]

Min(a, b) == IF a <= b THEN a ELSE b

\* an exception: its class, whether it is a requests RequestException, str(e)
Exc(cls, isreq, msg) == [cls |-> cls, request_exception |-> isreq, msg |-> msg]

\* the result of evaluating a call: a returned value or a raised exception
Return(v) == [kind |-> "return", value |-> v]
Raise(e) == [kind |-> "raise", exc |-> e]

ToolResult(success, data, error) ==
    [success |-> success, data |-> data, error |-> error]

----------------------------------------------------------------------------
(* str.strip(): drop the leading and trailing whitespace.                  *)

Whitespace == {" "}

RECURSIVE lstrip(_)
lstrip(s) ==
    IF s # << >> /\ Head(s) \in Whitespace THEN lstrip(Tail(s)) ELSE s

RECURSIVE rstrip(_)
rstrip(s) ==
    IF s # << >> /\ s[Len(s)] \in Whitespace
    THEN rstrip(SubSeq(s, 1, Len(s) - 1))
    ELSE s

strip(s) == rstrip(lstrip(s))

----------------------------------------------------------------------------
(* console.print with rich markup (the Console of line 24 renders markup): *)
(* "[name]" opens a style, "[/name]" closes the innermost open style of    *)
(* that name, and a closing tag with no matching open tag raises           *)
(* MarkupError, whose message quotes the tag.                              *)

TagNames == {"cyan", "red", "green", "yellow", "dim", "b", "white", "bold red"}
OpenTag(n) == "[" \o n \o "]"
CloseTag(n) == "[/" \o n \o "]"
IsOpenTag(tok) == \E n \in TagNames : tok = OpenTag(n)
IsCloseTag(tok) == \E n \in TagNames : tok = CloseTag(n)
TagOf(tok) == CHOOSE n \in TagNames : tok = OpenTag(n) \/ tok = CloseTag(n)

\* the style stack without its innermost entry named n
RemoveInnermost(stack, n) ==
    LET k == CHOOSE i \in 1..Len(stack) :
                 stack[i] = n /\ \A j \in (i+1)..Len(stack) : stack[j] # n
    IN SubSeq(stack, 1, k - 1) \o SubSeq(stack, k + 1, Len(stack))

\* None when the markup renders, else the closing tag that matches nothing
RECURSIVE render_markup(_, _)
render_markup(text, stack) ==
    IF text = << >> THEN None
    ELSE LET tok == Head(text) IN
         IF IsOpenTag(tok)
         THEN render_markup(Tail(text), Append(stack, TagOf(tok)))
         ELSE IF IsCloseTag(tok)
         THEN IF \E i \in 1..Len(stack) : stack[i] = TagOf(tok)
              THEN render_markup(Tail(text), RemoveInnermost(stack, TagOf(tok)))
              ELSE PyStr(<<tok>>)
         ELSE render_markup(Tail(text), stack)

MarkupError(tag) ==
    Exc("MarkupError", FALSE,
        <<"closing tag '">> \o tag \o <<"' doesn't match any open tag">>)

\* console.print(text): None, or the MarkupError it raises
console_print(text) ==
    LET bad == render_markup(text, << >>)
    IN IF bad = None THEN None ELSE MarkupError(bad.v)

----------------------------------------------------------------------------
(* The HTTP exchange with the weather provider: requests.get(timeout=10),  *)
(* response.raise_for_status() and response.json().  `http` is what the    *)
(* network and the provider do; a JSON body is a dict with its nested keys *)
(* flattened ("main.temp" is data["main"]["temp"]).                        *)

\* [ok |-> TRUE, body |-> the parsed JSON] or [ok |-> FALSE, exc |-> raised]
http_get_json(http) ==
    CASE http.kind = "timeout" ->
           [ok |-> FALSE, exc |-> Exc("ReadTimeout", TRUE, <<"Read timed out.">>)]
      [] http.kind = "connection_error" ->
           [ok |-> FALSE,
            exc |-> Exc("ConnectionError", TRUE, <<"Max retries exceeded">>)]
      [] http.kind = "status" ->
           [ok |-> FALSE,
            exc |-> Exc("HTTPError", TRUE,
                        <<ToString(http.code), " Error for url">>)]
      [] http.kind = "not_json" ->
           \* response.json(): requests.JSONDecodeError (a RequestException)
           \* or, with older requests, a plain ValueError
           [ok |-> FALSE,
            exc |-> Exc(http.cls, http.cls = "requests.JSONDecodeError",
                        <<"Expecting value">>)]
      [] http.kind = "json" -> [ok |-> TRUE, body |-> http.body]

----------------------------------------------------------------------------
(* Building a pydantic model from keyword arguments.  An argument is       *)
(* <<field, key of the payload, declared type>>; the arguments are         *)
(* evaluated in order (the first failing lookup raises), then the model    *)
(* validates every field.                                                  *)

Two(n) == IF n < 10 THEN "0" \o ToString(n) ELSE ToString(n)

\* datetime.fromtimestamp(ts).strftime("%H:%M") in a zone tz seconds east
strftime_HM(ts, tz) ==
    LET local == ts + tz
    IN <<Two((local \div 3600) % 24), ":", Two((local \div 60) % 60)>>

\* the exception evaluating argument a raises, or None
ArgError(body, a) ==
    IF a[3] = "get" THEN None
    ELSE IF a[2] \notin DOMAIN body
    THEN Exc("KeyError", FALSE, <<"'", a[2], "'">>)
    ELSE IF a[3] = "time" /\ body[a[2]].t \notin {"int", "float"}
    THEN Exc("TypeError", FALSE, <<"an integer is required">>)
    ELSE None

ArgValue(body, a, tz) ==
    IF a[3] = "get"
    THEN IF a[2] \in DOMAIN body THEN body[a[2]] ELSE PyInt(0)
    ELSE IF a[3] = "time" THEN PyStr(strftime_HM(body[a[2]].v, tz))
    ELSE body[a[2]]

FieldType(a) == IF a[3] = "time" THEN "str" ELSE IF a[3] = "get" THEN "int" ELSE a[3]

\* pydantic: does value v pass as a field of the declared type
Valid(v, type) ==
    CASE type = "str" -> v.t = "str"
      [] type = "float" -> v.t \in {"int", "float"}
      [] type = "int" -> v.t \in {"int", "float"}
      [] type = "list" -> v.t = "list"

\* the validated (coerced) value
Coerce(v, type) ==
    CASE type = "str" -> v
      [] type = "float" -> PyFloat(v.v)
      [] type = "int" -> PyInt(v.v)
      [] type = "list" -> v

ValidationError(model, field) ==
    Exc("ValidationError", FALSE,
        <<"1 validation error for ", model, " ", field>>)

\* Model(**{field: value}).model_dump() for the arguments args read from
\* body, with the extra keyword arguments extra (field -> <<value, type>>)
BuildModel(model, args, body, tz, extra) ==
    LET failing == {i \in 1..Len(args) : ArgError(body, args[i]) # None}
        fields == {args[i][1] : i \in 1..Len(args)}
        argOf(f) == args[CHOOSE i \in 1..Len(args) : args[i][1] = f]
        value(f) == IF f \in fields THEN ArgValue(body, argOf(f), tz) ELSE extra[f][1]
        type(f) == IF f \in fields THEN FieldType(argOf(f)) ELSE extra[f][2]
        all == fields \cup DOMAIN extra
        invalid == {f \in all : ~Valid(value(f), type(f))}
    IN IF failing # {}
       THEN [ok |-> FALSE,
             exc |-> ArgError(body, args[CHOOSE i \in failing :
                                            \A j \in failing : i <= j])]
       ELSE IF invalid # {}
       THEN [ok |-> FALSE,
             exc |-> ValidationError(model, CHOOSE f \in invalid : TRUE)]
       ELSE [ok |-> TRUE,
             data |-> PyDict([f \in all |-> Coerce(value(f), type(f))])]

WeatherDataArgs ==
    << <<"location", "name", "str">>,
       <<"country", "sys.country", "str">>,
       <<"temperature", "main.temp", "float">>,
       <<"feels_like", "main.feels_like", "float">>,
       <<"temp_min", "main.temp_min", "float">>,
       <<"temp_max", "main.temp_max", "float">>,
       <<"humidity", "main.humidity", "int">>,
       <<"pressure", "main.pressure", "int">>,
       <<"description", "weather.0.description", "str">>,
       <<"main", "weather.0.main", "str">>,
       <<"wind_speed", "wind.speed", "float">>,
       <<"clouds", "clouds.all", "int">>,
       <<"visibility", "visibility", "get">>,
       <<"sunrise", "sys.sunrise", "time">>,
       <<"sunset", "sys.sunset", "time">> >>

ForecastItemArgs ==
    << <<"datetime", "dt_txt", "str">>,
       <<"temperature", "main.temp", "float">>,
       <<"description", "weather.0.description", "str">>,
       <<"wind_speed", "wind.speed", "float">>,
       <<"humidity", "main.humidity", "int">> >>

ForecastDataArgs ==
    << <<"location", "city.name", "str">>,
       <<"country", "city.country", "str">> >>

----------------------------------------------------------------------------
(* The weather tools.  env is what the world does during the call:         *)
(* env.http the HTTP exchange, env.now the clock (formatted), env.tz the   *)
(* local zone.                                                             *)

\* tool_outcome with a failure that carries no message
tool_outcome_no_error(attempt) ==
    IF attempt.ok THEN Return(ToolResult(TRUE, attempt.data, None))
    ELSE Return(ToolResult(FALSE, None, None))

\* the two except clauses and the return of a tool: attempt is what the try
\* body did, [ok |-> TRUE, data |-> dict] or [ok |-> FALSE, exc |-> raised]
tool_outcome(attempt) ==
    IF attempt.ok THEN Return(ToolResult(TRUE, attempt.data, None))
    ELSE LET error_msg ==
                 <<IF attempt.exc.request_exception
                   THEN "Failed to fetch weather data: "
                   ELSE "Unexpected error: ">> \o attempt.exc.msg
             printed == console_print(<<"[red]", " ">> \o error_msg \o <<"[/red]">>)
         IN IF printed # None THEN Raise(printed)
            ELSE Return(ToolResult(FALSE, None, PyStr(error_msg)))

get_current_weather(location, units, env) ==
    tool_outcome(
        IF location.t # "str"
        THEN [ok |-> FALSE,
              exc |-> Exc("AttributeError", FALSE, <<"object has no attribute 'strip'">>)]
        ELSE LET loc == strip(location.v)
                 printed == console_print(
                     <<"[cyan]", " Fetching current weather for ">> \o loc
                         \o <<"...", "[/cyan]">>)
                 fetched == http_get_json(env.http)
             IN IF printed # None THEN [ok |-> FALSE, exc |-> printed]
                ELSE IF ~fetched.ok THEN fetched
                ELSE BuildModel("WeatherData", WeatherDataArgs, fetched.body, env.tz,
                                [units |-> <<units, "str">>,
                                 timestamp |-> <<PyStr(env.now), "str">>]))

\* capped taking the last entries instead of the first
capped_last(list) ==
    SubSeq(list, Len(list) - Min(Len(list), FORECAST_CAP) + 1, Len(list))

\* data["list"][:40]
capped(list) == SubSeq(list, 1, Min(Len(list), FORECAST_CAP))

\* the loop of lines 171-181 and the ForecastData of lines 183-187
build_forecast(body, tz) ==
    IF "list" \notin DOMAIN body
    THEN [ok |-> FALSE, exc |-> Exc("KeyError", FALSE, <<"'", "list", "'">>)]
    ELSE LET items == capped(body["list"])
             built == [i \in 1..Len(items) |->
                          BuildModel("ForecastItem", ForecastItemArgs, items[i], tz, << >>)]
             failing == {i \in 1..Len(items) : ~built[i].ok}
         IN IF failing # {}
            THEN built[CHOOSE i \in failing : \A j \in failing : i <= j]
            ELSE BuildModel("ForecastData", ForecastDataArgs, body, tz,
                            [forecasts |->
                                <<PyList([i \in 1..Len(items) |-> built[i].data]), "list">>])

get_weather_forecast(location, units, env) ==
    tool_outcome(
        IF location.t # "str"
        THEN [ok |-> FALSE,
              exc |-> Exc("AttributeError", FALSE, <<"object has no attribute 'strip'">>)]
        ELSE LET loc == strip(location.v)
                 printed == console_print(
                     <<"[cyan]", " Fetching forecast for ">> \o loc \o <<"...", "[/cyan]">>)
                 fetched == http_get_json(env.http)
             IN IF printed # None THEN [ok |-> FALSE, exc |-> printed]
                ELSE IF ~fetched.ok THEN fetched
                ELSE build_forecast(fetched.body, env.tz))

----------------------------------------------------------------------------
(* Tool dispatch.                                                          *)

\* tool name -> callable
TOOL_MAP == [get_current_weather |-> "get_current_weather",
             get_weather_forecast |-> "get_weather_forecast"]

\* tool_func(**tool_input): binding the dict to (location, units="metric")
call_tool(tool_func, tool_input, env) ==
    IF "location" \notin DOMAIN tool_input
    THEN Raise(Exc("TypeError", FALSE,
                   <<tool_func, "() missing 1 required positional argument: 'location'">>))
    ELSE IF ~(DOMAIN tool_input \subseteq {"location", "units"})
    THEN Raise(Exc("TypeError", FALSE,
                   <<tool_func, "() got an unexpected keyword argument">>))
    ELSE LET location == tool_input["location"]
             units == IF "units" \in DOMAIN tool_input
                      THEN tool_input["units"] ELSE PyStr(<<"metric">>)
         IN IF tool_func = "get_current_weather"
            THEN get_current_weather(location, units, env)
            ELSE get_weather_forecast(location, units, env)

\* process_tool_call falling back to a default tool for an unknown name
process_tool_call_fallback(tool_name, tool_input, env) ==
    LET tool_func == IF tool_name \in DOMAIN TOOL_MAP THEN TOOL_MAP[tool_name]
                     ELSE "get_current_weather"
    IN [result |-> call_tool(tool_func, tool_input, env),
        called |-> PyStr(<<tool_func>>)]

\* [result |-> what the call returned or raised, called |-> the callable
\* dispatched (None when none was)]
process_tool_call(tool_name, tool_input, env) ==
    IF tool_name \notin DOMAIN TOOL_MAP
    THEN [result |-> Return(ToolResult(FALSE, None,
                                       PyStr(<<"Unknown tool: ", tool_name>>))),
          called |-> None]
    ELSE [result |-> call_tool(TOOL_MAP[tool_name], tool_input, env),
          called |-> PyStr(<<TOOL_MAP[tool_name]>>)]

----------------------------------------------------------------------------
(* json.dumps.  The JSON text is kept as its document tree: null,          *)
(* true/false, a number literal (its integer part and the digits after the *)
(* point: 21 is <<21, << >> >>, 21.0 is <<21, <<0>> >>), a string, an      *)
(* object, an array.  json_render gives the tokens of the text itself,     *)
(* json_loads reads a document back.                                       *)

PyBool(b) == [t |-> "bool", v |-> b]

RECURSIVE json_dumps(_)
json_dumps(x) ==
    CASE x.t = "None" -> [j |-> "null"]
      [] x.t = "bool" -> [j |-> IF x.v THEN "true" ELSE "false"]
      [] x.t = "int" -> [j |-> "number", whole |-> x.v, frac |-> << >>]
      [] x.t = "float" -> [j |-> "number", whole |-> x.v, frac |-> <<0>>]
      [] x.t = "str" -> [j |-> "string", v |-> x.v]
      [] x.t = "dict" -> [j |-> "object", v |-> [k \in DOMAIN x.v |-> json_dumps(x.v[k])]]
      [] x.t = "list" -> [j |-> "array", v |-> [i \in DOMAIN x.v |-> json_dumps(x.v[i])]]

RECURSIVE SetToSeq(_)
SetToSeq(S) ==
    IF S = {} THEN << >>
    ELSE LET x == CHOOSE y \in S : TRUE IN <<x>> \o SetToSeq(S \ {x})

RECURSIVE json_render(_)
RECURSIVE json_render_object(_, _)
RECURSIVE json_render_array(_, _)
json_render(d) ==
    CASE d.j \in {"null", "true", "false"} -> <<d.j>>
      [] d.j = "number" ->
            IF d.frac = << >> THEN <<ToString(d.whole)>>
            ELSE <<ToString(d.whole), ".", ToString(d.frac[1])>>
      [] d.j = "string" -> <<"\"">> \o d.v \o <<"\"">>
      [] d.j = "object" -> <<"{">> \o json_render_object(d.v, SetToSeq(DOMAIN d.v)) \o <<"}">>
      [] d.j = "array" -> <<"[">> \o json_render_array(d.v, 1) \o <<"]">>
json_render_object(f, keys) ==
    IF keys = << >> THEN << >>
    ELSE <<"\"", Head(keys), "\"", ": ">> \o json_render(f[Head(keys)])
         \o (IF Len(keys) > 1 THEN <<", ">> ELSE << >>)
         \o json_render_object(f, Tail(keys))
json_render_array(l, i) ==
    IF i > Len(l) THEN << >>
    ELSE json_render(l[i]) \o (IF i < Len(l) THEN <<", ">> ELSE << >>)
         \o json_render_array(l, i + 1)

\* json.loads: a literal with a fraction part is a float, one without is
\* an int; an object is a dict with the same keys, an array a list
RECURSIVE json_loads(_)
json_loads(d) ==
    CASE d.j = "null" -> None
      [] d.j = "true" -> PyBool(TRUE)
      [] d.j = "false" -> PyBool(FALSE)
      [] d.j = "number" ->
            IF d.frac = << >> THEN PyInt(d.whole) ELSE PyFloat(d.whole)
      [] d.j = "string" -> PyStr(d.v)
      [] d.j = "object" -> PyDict([k \in DOMAIN d.v |-> json_loads(d.v[k])])
      [] d.j = "array" -> PyList([i \in DOMAIN d.v |-> json_loads(d.v[i])])

----------------------------------------------------------------------------
(* The agent loop run_agent.                                               *)

TextBlock(s) == [type |-> "text", text |-> s]
ToolUseBlock(id, name, input) ==
    [type |-> "tool_use", id |-> id, name |-> name, input |-> input]
Message(role, content) == [role |-> role, content |-> content]

\* hasattr(block, "text")
hasattr_text(block) == "text" \in DOMAIN block

\* final_text assigning instead of appending: the last text wins
RECURSIVE final_text_last(_)
final_text_last(content) ==
    IF content = << >> THEN << >>
    ELSE IF final_text_last(Tail(content)) # << >> THEN final_text_last(Tail(content))
    ELSE IF hasattr_text(Head(content)) THEN Head(content).text
    ELSE << >>

\* lines 335-338: the text of the blocks that have one, in order
RECURSIVE final_text(_)
final_text(content) ==
    IF content = << >> THEN << >>
    ELSE (IF hasattr_text(Head(content)) THEN Head(content).text ELSE << >>)
         \o final_text(Tail(content))

\* tool_result_block correlating by tool name instead of by call id
tool_result_block_by_name(block, result) ==
    [type |-> "tool_result",
     tool_use_id |-> block.name,
     content |-> json_dumps(PyDict([success |-> PyBool(result.success),
                                    data |-> result.data,
                                    error |-> result.error]))]

\* tool_result_block serializing the data only
tool_result_block_no_error(block, result) ==
    [type |-> "tool_result",
     tool_use_id |-> block.id,
     content |-> json_dumps(PyDict([success |-> PyBool(result.success),
                                    data |-> result.data,
                                    error |-> None]))]

\* tool_result_block serializing str(result.data) instead of the data
tool_result_block_str_data(block, result) ==
    [type |-> "tool_result",
     tool_use_id |-> block.id,
     content |-> json_dumps(PyDict([success |-> PyBool(result.success),
                                    data |-> IF result.data = None THEN None
                                             ELSE PyStr(json_render(json_dumps(result.data))),
                                    error |-> result.error]))]

\* lines 316-328: the tool_result block for the request block and its result
tool_result_block(block, result) ==
    [type |-> "tool_result",
     tool_use_id |-> block.id,
     content |-> json_dumps(PyDict([success |-> PyBool(result.success),
                                    data |-> result.data,
                                    error |-> result.error]))]

\* line 310: the text printed before a tool is dispatched
calling_tool_text(block) ==
    <<"[yellow]", " Calling tool: ", block.name, "(">>
        \o json_render(json_dumps(PyDict(block.input)))
        \o <<")", "[/yellow]">>

EXHAUSTED_MESSAGE ==
    <<"Maximum iterations reached. Please try again with a more specific query">>

\* unexpected_stop_text without the reason
unexpected_stop_text_bare(stop_reason) == <<"Unexpected stop reason: ">>

\* line 343
unexpected_stop_text(stop_reason) == <<"Unexpected stop reason: ", stop_reason>>

----------------------------------------------------------------------------
(* The world the program runs in: provider payloads, HTTP exchanges, tool  *)
(* arguments and model responses, drawn from small sets.                   *)

Drop(f, k) == [x \in DOMAIN f \ {k} |-> f[x]]
With(f, k, v) == [x \in DOMAIN f \cup {k} |-> IF x = k THEN v ELSE f[x]]

GoodCurrentBody ==
    [x \in {"name", "sys.country", "main.temp", "main.feels_like", "main.temp_min",
            "main.temp_max", "main.humidity", "main.pressure",
            "weather.0.description", "weather.0.main", "wind.speed", "clouds.all",
            "visibility", "sys.sunrise", "sys.sunset"} |->
        CASE x = "name" -> PyStr(<<"Paris">>)
          [] x = "sys.country" -> PyStr(<<"FR">>)
          [] x = "main.temp" -> PyFloat(21)
          [] x = "main.feels_like" -> PyFloat(20)
          [] x = "main.temp_min" -> PyInt(18)
          [] x = "main.temp_max" -> PyFloat(23)
          [] x = "main.humidity" -> PyInt(60)
          [] x = "main.pressure" -> PyInt(1012)
          [] x = "weather.0.description" -> PyStr(<<"clear sky">>)
          [] x = "weather.0.main" -> PyStr(<<"Clear">>)
          [] x = "wind.speed" -> PyFloat(3)
          [] x = "clouds.all" -> PyInt(0)
          [] x = "visibility" -> PyInt(10000)
          [] x = "sys.sunrise" -> PyInt(22500)
          [] x = "sys.sunset" -> PyInt(68340)]

\* a body, the body without one key, with one value null or of another type
CurrentBodies ==
    {GoodCurrentBody}
        \cup {Drop(GoodCurrentBody, k) : k \in DOMAIN GoodCurrentBody}
        \cup {With(GoodCurrentBody, k, None) : k \in DOMAIN GoodCurrentBody}
        \cup {With(GoodCurrentBody, k, PyStr(<<"n/a">>)) : k \in DOMAIN GoodCurrentBody}

ListPatterns == {"ascending", "descending", "repeating"}

\* the i-th of n forecast entries; the pattern decides what it carries
ForecastEntry(i, n, pattern) ==
    LET slot == CASE pattern = "ascending" -> i
                  [] pattern = "descending" -> n + 1 - i
                  [] pattern = "repeating" -> i % 2
    IN [x \in {"dt_txt", "main.temp", "weather.0.description", "wind.speed",
               "main.humidity"} |->
           CASE x = "dt_txt" -> PyStr(<<"slot ", ToString(slot)>>)
             [] x = "main.temp" -> PyFloat(slot)
             [] x = "weather.0.description" -> PyStr(<<"rain">>)
             [] x = "wind.speed" -> PyInt(5)
             [] x = "main.humidity" -> PyInt(70)]

\* n entries, the bad-th of them (when bad > 0) without its dt_txt
ForecastBody(n, pattern, bad) ==
    [x \in {"list", "city.name", "city.country"} |->
        CASE x = "list" -> [i \in 1..n |->
                               IF i = bad THEN Drop(ForecastEntry(i, n, pattern), "dt_txt")
                               ELSE ForecastEntry(i, n, pattern)]
          [] x = "city.name" -> PyStr(<<"Paris">>)
          [] x = "city.country" -> PyStr(<<"FR">>)]

ForecastBodies ==
    {ForecastBody(n, p, b) :
        n \in 0..MaxEntries, p \in ListPatterns,
        b \in {0, 1, FORECAST_CAP, FORECAST_CAP + 1, MaxEntries}}
        \cup {Drop(ForecastBody(2, "ascending", 0), k) :
                 k \in {"list", "city.name", "city.country"}}
        \cup {With(ForecastBody(2, "ascending", 0), "city.name", None)}

HttpFailures ==
    {[kind |-> "timeout"], [kind |-> "connection_error"]}
        \cup {[kind |-> "status", code |-> c] : c \in {401, 404, 500}}
        \cup {[kind |-> "not_json", cls |-> c] :
                 c \in {"requests.JSONDecodeError", "ValueError"}}

Envs(bodies) ==
    {[http |-> h, now |-> <<"2025-06-01 12:00:00">>, tz |-> z] :
        h \in HttpFailures \cup {[kind |-> "json", body |-> b] : b \in bodies},
        z \in {0, 19800}}

\* location and units arguments: plain, padded, carrying a closing markup
\* tag, not a str
Locations ==
    {PyStr(<<"Paris">>), PyStr(<<" ", "Paris", " ">>), PyStr(<<"Paris", "[/b]">>),
     PyInt(75001)}
UnitsArgs == {PyStr(<<"metric">>), PyStr(<<"imperial">>), PyInt(1)}

\* a body that serves both endpoints, for the tools the agent loop runs
GoodBody ==
    [x \in DOMAIN GoodCurrentBody \cup DOMAIN ForecastBody(2, "ascending", 0) |->
        IF x \in DOMAIN GoodCurrentBody THEN GoodCurrentBody[x]
        ELSE ForecastBody(2, "ascending", 0)[x]]

RoutineEnv ==
    [http |-> [kind |-> "json", body |-> GoodBody],
     now |-> <<"2025-06-01 12:00:00">>, tz |-> 0]
TimeoutEnv ==
    [http |-> [kind |-> "timeout"], now |-> <<"2025-06-01 12:00:00">>, tz |-> 0]
LoopEnvs == {RoutineEnv, TimeoutEnv}

Paris == PyStr(<<"Paris">>)

\* what the model may ask for: the tool name and the input dict
GoodCall == [type |-> "tool_use", name |-> "get_current_weather",
             input |-> [location |-> Paris]]
Calls ==
    {GoodCall,
     [type |-> "tool_use", name |-> "get_weather_forecast",
      input |-> [location |-> Paris, units |-> PyStr(<<"imperial">>)]],
     [type |-> "tool_use", name |-> "get_time", input |-> [location |-> Paris]],
     [type |-> "tool_use", name |-> "get_current_weather", input |-> << >>],
     [type |-> "tool_use", name |-> "get_weather_forecast",
      input |-> [location |-> Paris, days |-> PyInt(3)]],
     [type |-> "tool_use", name |-> "get_current_weather",
      input |-> [location |-> PyStr(<<"Paris", "[/b]">>)]]}

Texts == {TextBlock(<<"A">>), TextBlock(<<"B">>)}

StopReasons == {"tool_use", "end_turn", "max_tokens"}

\* a response before the provider numbers its tool_use blocks
Drafts ==
    {[stop_reason |-> sr, content |-> c] :
        sr \in StopReasons,
        c \in UNION {[1..k -> Texts \cup Calls] : k \in 0..MaxBlocks}}

\* the responses of a model that keeps asking for the weather, or stops
RoutineDrafts ==
    {[stop_reason |-> "tool_use", content |-> <<GoodCall>>],
     [stop_reason |-> "end_turn", content |-> <<TextBlock(<<"A">>)>>],
     [stop_reason |-> "max_tokens", content |-> << >>]}

\* the provider gives every tool_use block an id of its own
BlockId(n, i) == "toolu_" \o ToString(n) \o "_" \o ToString(i)

Numbered(draft, n) ==
    [stop_reason |-> draft.stop_reason,
     content |-> [i \in 1..Len(draft.content) |->
                     IF draft.content[i].type = "tool_use"
                     THEN ToolUseBlock(BlockId(n, i), draft.content[i].name,
                                       draft.content[i].input)
                     ELSE draft.content[i]]]

Queries == {<<"Weather in Paris?">>}

----------------------------------------------------------------------------
(* run_agent as a state machine.  To keep the transcripts enumerable an    *)
(* invocation is a run of routine rounds (the model asks for the weather   *)
(* of Paris and the provider answers), then at most one round, at any      *)
(* position, in which the response of the model and the behaviour of the   *)
(* provider are arbitrary, after which the model asks for no more tools.   *)
(* `latitude` is "unused" before the arbitrary round, "inuse" during it    *)
(* and "used" after it; it is "routine" in an invocation that has routine  *)
(* rounds only.                                                            *)

InitAgent ==
    /\ \E q \in Queries : messages = <<Message("user", PyStr(q))>>
    /\ iteration = 0
    /\ pc = "AwaitingModel"
    /\ response = None
    /\ idx = 0
    /\ tool_results = << >>
    /\ outcome = None
    /\ requests = 0
    /\ sent = << >>
    /\ dispatched = << >>
    /\ latitude = "unused"

InitTool ==
    /\ tool_call = None
    /\ tool_ret = None

\* run_agent called on its own, not from the shell
InitNoShell ==
    /\ shell_pc = "NoShell"
    /\ user_input = << >>
    /\ presented = "Nothing"
    /\ invocations = 0

Init == InitAgent /\ InitTool /\ InitNoShell

DraftsOf == [sr \in StopReasons |-> {d \in Drafts : d.stop_reason = sr}]
RoutineOf == [sr \in StopReasons |-> {d \in RoutineDrafts : d.stop_reason = sr}]

\* the responses with stop reason sr the model may give now
Offered(sr) ==
    IF latitude = "unused" THEN DraftsOf[sr]
    ELSE IF latitude = "routine" THEN RoutineOf[sr]
    ELSE IF sr = "tool_use" THEN {}
    ELSE RoutineOf[sr]

\* line 291: client.messages.create(messages=messages) answers r
ModelCall(draft) ==
    /\ pc = "AwaitingModel"
    /\ response' = Numbered(draft, requests + 1)
    /\ requests' = requests + 1
    /\ sent' = messages
    /\ latitude' = IF draft \in RoutineDrafts THEN latitude
                   ELSE IF draft.stop_reason = "tool_use" THEN "inuse" ELSE "used"

\* ToolUseResponse leaving the assistant message for later
ToolUseResponse_no_append ==
    \E draft \in Offered("tool_use") :
        /\ ModelCall(draft)
        /\ tool_results' = << >>
        /\ idx' = 1
        /\ pc' = "ExecutingTools"
        /\ UNCHANGED <<messages, iteration, outcome, dispatched, tool_call, tool_ret, shell_vars>>

\* ToolUseResponse appending the response under the role of the user
ToolUseResponse_user_role ==
    \E draft \in Offered("tool_use") :
        /\ ModelCall(draft)
        /\ messages' = Append(messages, Message("user", PyList(response'.content)))
        /\ tool_results' = << >>
        /\ idx' = 1
        /\ pc' = "ExecutingTools"
        /\ UNCHANGED <<iteration, outcome, dispatched, tool_call, tool_ret, shell_vars>>

\* lines 299-303
ToolUseResponse ==
    \E draft \in Offered("tool_use") :
        /\ ModelCall(draft)
        /\ messages' = Append(messages, Message("assistant", PyList(response'.content)))
        /\ tool_results' = << >>
        /\ idx' = 1
        /\ pc' = "ExecutingTools"
        /\ UNCHANGED <<iteration, outcome, dispatched, tool_call, tool_ret, shell_vars>>

\* EndTurnResponse recording the final response in the transcript
EndTurnResponse_append ==
    \E draft \in Offered("end_turn") :
        /\ ModelCall(draft)
        /\ messages' = Append(messages, Message("assistant", PyList(response'.content)))
        /\ outcome' = Return(final_text(response'.content))
        /\ pc' = "Done"
        /\ UNCHANGED <<iteration, idx, tool_results, dispatched,
                       tool_call, tool_ret, shell_vars>>

\* lines 333-340
EndTurnResponse ==
    \E draft \in Offered("end_turn") :
        /\ ModelCall(draft)
        /\ outcome' = Return(final_text(response'.content))
        /\ pc' = "Done"
        /\ UNCHANGED <<messages, iteration, idx, tool_results, dispatched,
                       tool_call, tool_ret, shell_vars>>

\* lines 342-343
UnexpectedStopResponse ==
    \E draft \in Offered("max_tokens") :
        /\ ModelCall(draft)
        /\ outcome' = Return(unexpected_stop_text(response'.stop_reason))
        /\ pc' = "Done"
        /\ UNCHANGED <<messages, iteration, idx, tool_results, dispatched,
                       tool_call, tool_ret, shell_vars>>

\* what the history keeps of one process_tool_call call made for `block`
\* during the requests-th round trip
DispatchRecord(block, d) ==
    [request |-> requests, id |-> block.id, name |-> block.name, called |-> d.called,
     kind |-> d.result.kind,
     success |-> IF d.result.kind = "return" THEN PyBool(d.result.value.success) ELSE None,
     error |-> IF d.result.kind = "return" THEN d.result.value.error ELSE None]

\* lines 305-306: a block that is not a tool_use block is passed over
SkipBlock ==
    /\ pc = "ExecutingTools"
    /\ idx <= Len(response.content)
    /\ response.content[idx].type # "tool_use"
    /\ idx' = idx + 1
    /\ UNCHANGED <<messages, iteration, pc, response, tool_results, outcome,
                   requests, sent, dispatched, latitude, tool_call, tool_ret, shell_vars>>

\* lines 306-328: one tool_use block: print, dispatch, collect the result
DispatchTool ==
    /\ pc = "ExecutingTools"
    /\ idx <= Len(response.content)
    /\ response.content[idx].type = "tool_use"
    /\ \E env \in (IF latitude \in {"used", "routine"} THEN {RoutineEnv} ELSE LoopEnvs) :
        LET block == response.content[idx]
            printed == console_print(calling_tool_text(block))
            d == process_tool_call(block.name, block.input, env)
        IN /\ latitude' = IF env # RoutineEnv /\ latitude = "unused"
                          THEN "inuse" ELSE latitude
           /\ IF printed # None
              THEN /\ pc' = "Raised"
                   /\ outcome' = Raise(printed)
                   /\ UNCHANGED <<idx, tool_results, dispatched>>
              ELSE /\ dispatched' = Append(dispatched, DispatchRecord(block, d))
                   /\ IF d.result.kind = "raise"
                      THEN /\ pc' = "Raised"
                           /\ outcome' = d.result
                           /\ UNCHANGED <<idx, tool_results>>
                      ELSE /\ tool_results' =
                                 Append(tool_results,
                                        tool_result_block(block, d.result.value))
                           /\ idx' = idx + 1
                           /\ UNCHANGED <<pc, outcome>>
    /\ UNCHANGED <<messages, iteration, response, requests, sent, tool_call, tool_ret, shell_vars>>

\* AppendResults storing the results over the last message instead of
\* appending them
AppendResults_overwrite ==
    /\ pc = "ExecutingTools"
    /\ idx > Len(response.content)
    /\ messages' = [messages EXCEPT ![Len(messages)] =
                                       Message("user", PyList(tool_results))]
    /\ iteration' = iteration + 1
    /\ IF iteration + 1 < MAX_ITERATIONS
       THEN pc' = "AwaitingModel" /\ UNCHANGED outcome
       ELSE pc' = "Exhausted" /\ outcome' = Return(EXHAUSTED_MESSAGE)
    /\ latitude' = IF latitude = "inuse" THEN "used" ELSE latitude
    /\ UNCHANGED <<response, idx, tool_results, requests, sent, dispatched,
                   tool_call, tool_ret, shell_vars>>

\* AppendResults appending the user message only when there are results
AppendResults_skip_empty ==
    /\ pc = "ExecutingTools"
    /\ idx > Len(response.content)
    /\ messages' = IF tool_results = << >> THEN messages
                   ELSE Append(messages, Message("user", PyList(tool_results)))
    /\ iteration' = iteration + 1
    /\ IF iteration + 1 < MAX_ITERATIONS
       THEN pc' = "AwaitingModel" /\ UNCHANGED outcome
       ELSE pc' = "Exhausted" /\ outcome' = Return(EXHAUSTED_MESSAGE)
    /\ latitude' = IF latitude = "inuse" THEN "used" ELSE latitude
    /\ UNCHANGED <<response, idx, tool_results, requests, sent, dispatched,
                   tool_call, tool_ret, shell_vars>>

\* line 330, the end of the iteration and, after the last one, line 345
AppendResults ==
    /\ pc = "ExecutingTools"
    /\ idx > Len(response.content)
    /\ messages' = Append(messages, Message("user", PyList(tool_results)))
    /\ iteration' = iteration + 1
    /\ IF iteration + 1 < MAX_ITERATIONS
       THEN pc' = "AwaitingModel" /\ UNCHANGED outcome
       ELSE pc' = "Exhausted" /\ outcome' = Return(EXHAUSTED_MESSAGE)
    /\ latitude' = IF latitude = "inuse" THEN "used" ELSE latitude
    /\ UNCHANGED <<response, idx, tool_results, requests, sent, dispatched,
                   tool_call, tool_ret, shell_vars>>

Next ==
    \/ ToolUseResponse
    \/ EndTurnResponse
    \/ UnexpectedStopResponse
    \/ SkipBlock
    \/ DispatchTool
    \/ AppendResults

Spec == Init /\ [][Next]_vars

----------------------------------------------------------------------------
(* The tools and the dispatch called directly, once, on every argument and *)
(* every behaviour of the provider: the call is drawn first, then made.    *)

ToolCalls ==
    {[fn |-> "get_current_weather", location |-> l, units |-> u, env |-> e] :
        l \in Locations, u \in UnitsArgs, e \in Envs(CurrentBodies)}
    \cup
    {[fn |-> "get_weather_forecast", location |-> l, units |-> u, env |-> e] :
        l \in Locations, u \in UnitsArgs, e \in Envs(ForecastBodies)}
    \cup
    {[fn |-> "process_tool_call", tool_name |-> c.name, tool_input |-> c.input,
      env |-> e] :
        c \in Calls, e \in Envs({GoodBody, Drop(GoodBody, "name")})}

InitTools ==
    /\ InitAgent
    /\ InitNoShell
    /\ tool_call \in ToolCalls
    /\ tool_ret = None

CallCurrentWeather ==
    /\ tool_ret = None
    /\ tool_call.fn = "get_current_weather"
    /\ tool_ret' = get_current_weather(tool_call.location, tool_call.units,
                                       tool_call.env)
    /\ UNCHANGED <<agent_vars, tool_call, shell_vars>>

CallWeatherForecast ==
    /\ tool_ret = None
    /\ tool_call.fn = "get_weather_forecast"
    /\ tool_ret' = get_weather_forecast(tool_call.location, tool_call.units,
                                        tool_call.env)
    /\ UNCHANGED <<agent_vars, tool_call, shell_vars>>

CallProcessToolCall ==
    /\ tool_ret = None
    /\ tool_call.fn = "process_tool_call"
    /\ tool_ret' = process_tool_call(tool_call.tool_name, tool_call.tool_input,
                                     tool_call.env).result
    /\ UNCHANGED <<agent_vars, tool_call, shell_vars>>

NextTools ==
    \/ CallCurrentWeather
    \/ CallWeatherForecast
    \/ CallProcessToolCall

SpecTools == InitTools /\ [][NextTools]_vars

----------------------------------------------------------------------------
(* The interactive shell main (lines 380-410): prompt, read a line, leave  *)
(* on an exit word, pass over an empty line, else call run_agent and print *)
(* what it returns.  The steps of run_agent are those of the agent loop,   *)
(* taken while the shell waits for it.  In a session the first invocation  *)
(* on the query of Queries is arbitrary, the others have routine rounds.   *)

\* str.lower() on the pieces of text the session reads
LowerTok(tok) ==
    CASE tok = "Bye" -> "bye"
      [] tok = "EXIT" -> "exit"
      [] OTHER -> tok
lower(s) == [i \in DOMAIN s |-> LowerTok(s[i])]

\* line 390
ExitWords == {<<"quit">>, <<"exit">>, <<"bye">>, <<"goodbye">>}

\* the lines a user may type
Lines ==
    {<<"quit">>, <<" ", "Bye", " ">>, <<"EXIT">>, << >>, <<" ", " ">>,
     <<"Weather in Paris?">>, <<" ", "Rain in Rome?", " ">>}

\* input() when stdin is closed
EOFError == Exc("EOFError", FALSE, <<"EOF when reading a line">>)

\* line 402: the text printed for the str run_agent returned
response_text(text) == <<"[white]">> \o text \o <<"[/white]">>
\* line 409: the text printed for a caught exception
error_text(e) == <<"[bold red]", " Error: ">> \o e.msg \o <<"[/bold red]">>

\* main before its first prompt, print_welcome done
InitShell ==
    /\ shell_pc = "Prompt"
    /\ user_input = << >>
    /\ presented = "Welcome"
    /\ invocations = 0

\* no run_agent frame exists
InitIdleAgent ==
    /\ messages = << >>
    /\ iteration = 0
    /\ pc = "Idle"
    /\ response = None
    /\ idx = 0
    /\ tool_results = << >>
    /\ outcome = None
    /\ requests = 0
    /\ sent = << >>
    /\ dispatched = << >>
    /\ latitude = "routine"

InitMain == InitShell /\ InitIdleAgent /\ InitTool

\* the frame of run_agent is left (return, exception or interrupt): its
\* locals are gone
LeaveAgent ==
    /\ messages' = << >>
    /\ iteration' = 0
    /\ pc' = "Idle"
    /\ response' = None
    /\ idx' = 0
    /\ tool_results' = << >>
    /\ outcome' = None
    /\ requests' = 0
    /\ sent' = << >>
    /\ dispatched' = << >>
    /\ latitude' = "routine"

\* lines 408-410: the handler of `except Exception as e`; printing the
\* error can raise in turn, and nothing catches that
HandleException(e) ==
    IF console_print(error_text(e)) = None
    THEN presented' = "Error" /\ shell_pc' = "Prompt"
    ELSE presented' = "Traceback" /\ shell_pc' = "Escaped"

\* lines 387-394: an exit word ends the session
ReadExitWord ==
    /\ shell_pc = "Prompt"
    /\ \E line \in Lines :
          /\ lower(strip(line)) \in ExitWords
          /\ user_input' = strip(line)
    /\ presented' = "Goodbye"
    /\ shell_pc' = "Ended"
    /\ UNCHANGED <<agent_vars, tool_vars, invocations>>

\* lines 397-398: an empty line goes back to the prompt
ReadEmptyLine ==
    /\ shell_pc = "Prompt"
    /\ \E line \in Lines :
          /\ strip(line) = << >>
          /\ user_input' = strip(line)
    /\ UNCHANGED <<agent_vars, tool_vars, shell_pc, presented, invocations>>

\* lines 400-401 and 285: any other line is the query of a new run_agent call
ReadQuery ==
    /\ shell_pc = "Prompt"
    /\ invocations < MaxInvocations
    /\ \E line \in Lines :
          /\ lower(strip(line)) \notin ExitWords
          /\ strip(line) # << >>
          /\ user_input' = strip(line)
          /\ messages' = <<Message("user", PyStr(strip(line)))>>
          /\ latitude' = IF invocations = 0 /\ strip(line) \in Queries
                         THEN "unused" ELSE "routine"
    /\ iteration' = 0
    /\ pc' = "AwaitingModel"
    /\ response' = None
    /\ idx' = 0
    /\ tool_results' = << >>
    /\ outcome' = None
    /\ requests' = 0
    /\ sent' = << >>
    /\ dispatched' = << >>
    /\ invocations' = invocations + 1
    /\ presented' = "Assistant:"
    /\ shell_pc' = "Running"
    /\ UNCHANGED tool_vars

\* line 388 raising EOFError: caught at line 408, printed, next prompt
ReadEOF ==
    /\ shell_pc = "Prompt"
    /\ HandleException(EOFError)
    /\ UNCHANGED <<agent_vars, tool_vars, user_input, invocations>>

\* Ctrl-C while input() waits or while run_agent runs: lines 404-406
KeyboardInterrupt ==
    /\ \/ shell_pc = "Prompt" /\ UNCHANGED agent_vars
       \/ /\ shell_pc = "Running"
          /\ pc \in {"AwaitingModel", "ExecutingTools"}
          /\ LeaveAgent
    /\ presented' = "Interrupted"
    /\ shell_pc' = "Ended"
    /\ UNCHANGED <<tool_vars, user_input, invocations>>

\* a step of the run_agent call the shell is waiting for
RunAgentStep ==
    /\ shell_pc = "Running"
    /\ Next

\* line 402: run_agent returned; the response is printed inside the try
AgentReturned ==
    /\ shell_pc = "Running"
    /\ pc \in {"Done", "Exhausted"}
    /\ LET printed == console_print(response_text(outcome.value))
       IN IF printed = None
          THEN presented' = "Response" /\ shell_pc' = "Prompt"
          ELSE HandleException(printed)
    /\ LeaveAgent
    /\ UNCHANGED <<tool_vars, user_input, invocations>>

\* lines 408-410: run_agent raised
AgentRaised ==
    /\ shell_pc = "Running"
    /\ pc = "Raised"
    /\ HandleException(outcome.exc)
    /\ LeaveAgent
    /\ UNCHANGED <<tool_vars, user_input, invocations>>

NextMain ==
    \/ ReadExitWord
    \/ ReadEmptyLine
    \/ ReadQuery
    \/ ReadEOF
    \/ KeyboardInterrupt
    \/ RunAgentStep
    \/ AgentReturned
    \/ AgentRaised

SpecMain == InitMain /\ [][NextMain]_vars

----------------------------------------------------------------------------
(* Properties of the weather tools and of the dispatch (SpecTools).        *)

\* does the str s hold the piece tok
Contains(s, tok) == \E i \in 1..Len(s) : s[i] = tok

IsWeatherTool(call) == call.fn \in {"get_current_weather", "get_weather_forecast"}

\* the HTTP exchange was made and failed: no response in time, no
\* connection, or a status that is not 2xx
HttpFailed(call) ==
    /\ call.location.t = "str"
    /\ call.env.http.kind \in {"timeout", "connection_error", "status"}

\* C8: get_current_weather and get_weather_forecast never raise: whatever
\* the location, the units and the outcome of the HTTP call, they return a
\* ToolResult, and a network, timeout or non-2xx failure gives success=false
\* with an error containing "Failed to fetch weather data".
C8_ToolsNeverRaise ==
    (tool_ret # None /\ IsWeatherTool(tool_call)) =>
        /\ tool_ret.kind = "return"
        /\ HttpFailed(tool_call) =>
              /\ tool_ret.value.success = FALSE
              /\ tool_ret.value.error # None
              /\ Contains(tool_ret.value.error.v, "Failed to fetch weather data: ")

\* what holds of the tools: a location without a closing markup tag never
\* makes them raise, and then a failed HTTP exchange is reported as C8 says
C8_ToolsReturnOnPlainLocations ==
    (tool_ret # None /\ IsWeatherTool(tool_call)
        /\ (tool_call.location.t = "str" =>
               \A i \in 1..Len(tool_call.location.v) :
                   ~IsCloseTag(tool_call.location.v[i]))) =>
        /\ tool_ret.kind = "return"
        /\ HttpFailed(tool_call) =>
              /\ tool_ret.value.success = FALSE
              /\ tool_ret.value.error # None
              /\ Contains(tool_ret.value.error.v, "Failed to fetch weather data: ")

\* C9: every ToolResult a weather tool or process_tool_call produces has
\* data and no error when success is true, an error and no data when
\* success is false.
C9_ResultShape ==
    (tool_ret # None /\ tool_ret.kind = "return") =>
        /\ tool_ret.value.success = TRUE =>
              tool_ret.value.data # None /\ tool_ret.value.error = None
        /\ tool_ret.value.success = FALSE =>
              tool_ret.value.error # None /\ tool_ret.value.data = None

C9_Witness ==
    /\ tool_ret # None
    /\ tool_call.fn = "process_tool_call"
    /\ tool_call.tool_name = "get_weather_forecast"
    /\ tool_ret.kind = "return"
    /\ tool_ret.value.success = TRUE
    /\ tool_ret.value.data.t = "dict"

\* C10: a successful get_weather_forecast on a payload of n entries returns
\* min(n, 40) items, the i-th built from the i-th entry of the payload.
C10_ForecastCap ==
    (tool_ret # None /\ tool_call.fn = "get_weather_forecast"
        /\ tool_ret.kind = "return" /\ tool_ret.value.success = TRUE) =>
        LET list == tool_call.env.http.body["list"]
            forecasts == tool_ret.value.data.v["forecasts"].v
        IN /\ Len(forecasts) = (IF Len(list) <= 40 THEN Len(list) ELSE 40)
           /\ \A i \in 1..Len(forecasts) :
                 /\ "dt_txt" \in DOMAIN list[i]
                 /\ forecasts[i].v["datetime"] = list[i]["dt_txt"]
                 /\ forecasts[i].v["temperature"].v = list[i]["main.temp"].v
                 /\ forecasts[i].v["description"] = list[i]["weather.0.description"]
                 /\ forecasts[i].v["wind_speed"].v = list[i]["wind.speed"].v
                 /\ forecasts[i].v["humidity"].v = list[i]["main.humidity"].v

C10_Witness ==
    /\ tool_ret # None
    /\ tool_call.fn = "get_weather_forecast"
    /\ tool_ret.kind = "return"
    /\ tool_ret.value.success = TRUE
    /\ Len(tool_call.env.http.body["list"]) = 45
    /\ Len(tool_ret.value.data.v["forecasts"].v) = 40
    /\ tool_ret.value.data.v["forecasts"].v[1].v["datetime"] = PyStr(<<"slot ", "45">>)

\* the payload a consumer of the tool_result block made for `result` reads
Deserialized(result) ==
    json_loads(tool_result_block(ToolUseBlock(BlockId(1, 1), "get_current_weather",
                                              [location |-> Paris]),
                                 result).content)

\* C11: a successful ToolResult with a data payload, serialized into the
\* content of a tool_result block and read back, gives success true, the
\* same data (every key, every value with its type) and a null error.
C11_RoundTrip ==
    (tool_ret # None /\ tool_ret.kind = "return" /\ tool_ret.value.success = TRUE
        /\ tool_ret.value.data # None) =>
        LET back == Deserialized(tool_ret.value)
        IN /\ back.t = "dict"
           /\ DOMAIN back.v = {"success", "data", "error"}
           /\ back.v["success"] = PyBool(TRUE)
           /\ back.v["error"] = None
           /\ back.v["data"].t = tool_ret.value.data.t
           /\ back.v["data"] = tool_ret.value.data

C11_Witness ==
    /\ tool_ret # None
    /\ tool_call.fn = "get_weather_forecast"
    /\ tool_ret.kind = "return"
    /\ tool_ret.value.success = TRUE
    /\ Len(tool_ret.value.data.v["forecasts"].v) >= 2
    /\ tool_ret.value.data.v["forecasts"].v[1].v["temperature"].t = "float"
    /\ tool_ret.value.data.v["forecasts"].v[1].v["humidity"].t = "int"
    /\ Deserialized(tool_ret.value).v["data"].v["forecasts"].v[2]
          = tool_ret.value.data.v["forecasts"].v[2]

----------------------------------------------------------------------------
(* Properties of the agent loop (Spec).                                    *)

IsToolUse(block) == block.type = "tool_use"
IsText(block) == block.type = "text"
ToolUses(content) == SelectSeq(content, IsToolUse)
Last(s) == s[Len(s)]
Terminated == pc \in {"Done", "Exhausted", "Raised"}

\* C1: after an assistant message with N tool_use blocks (among text
\* blocks) the next message appended is a user message with exactly N
\* tool_result blocks, the i-th carrying the id of the i-th tool_use block.
C1_ResultsMatchRequests ==
    \A k \in 1..(Len(messages) - 1) :
        messages[k].role = "assistant" =>
            LET calls == ToolUses(messages[k].content.v)
                results == messages[k + 1].content.v
            IN /\ messages[k + 1].role = "user"
               /\ messages[k + 1].content.t = "list"
               /\ Len(results) = Len(calls)
               /\ \A i \in 1..Len(results) :
                     /\ results[i].type = "tool_result"
                     /\ results[i].tool_use_id = calls[i].id

C1_Witness ==
    \E k \in 1..(Len(messages) - 1) :
        /\ messages[k].role = "assistant"
        /\ Len(messages[k].content.v) = 3
        /\ IsToolUse(messages[k].content.v[1])
        /\ IsText(messages[k].content.v[2])
        /\ IsToolUse(messages[k].content.v[3])
        /\ messages[k].content.v[1].name # messages[k].content.v[3].name
        /\ messages[k + 1].role = "user"
        /\ Len(messages[k + 1].content.v) = 2

\* C2: no exception of a tool invocation leaves process_tool_call: every
\* dispatch returns a ToolResult, so none ends the agent loop.
C2_DispatchNeverRaises ==
    \A i \in 1..Len(dispatched) : dispatched[i].kind = "return"

\* C3: a model that answers tool_use every time gets exactly 10 round
\* trips, never an 11th, and run_agent then returns the fixed message.
C3_AlwaysToolUseExhausts ==
    /\ requests <= 10
    /\ (Terminated /\ response.stop_reason = "tool_use") =>
          /\ requests = 10
          /\ pc = "Exhausted"
          /\ outcome = Return(<<"Maximum iterations reached. Please try again with a more specific query">>)

\* what holds of the budget: never an 11th round trip, and the invocations
\* that return after tool_use answers only are those that made 10 round
\* trips, returning the fixed message
C3_BudgetWhenReturning ==
    /\ requests <= 10
    /\ (pc \in {"Done", "Exhausted"} /\ response.stop_reason = "tool_use") =>
          /\ requests = 10
          /\ pc = "Exhausted"
          /\ outcome = Return(<<"Maximum iterations reached. Please try again with a more specific query">>)
    /\ pc = "Exhausted" => response.stop_reason = "tool_use" /\ requests = 10

\* the step dispatched a request for a name that is no registered tool
UnknownDispatched ==
    /\ Len(dispatched') = Len(dispatched) + 1
    /\ Last(dispatched').name \notin {"get_current_weather", "get_weather_forecast"}

\* C4: a request for a tool that is not registered invokes no tool and gets
\* a ToolResult success=false with an "Unknown tool" error; the loop goes
\* on: the error is put in the tool_result block of that request, and when
\* the round ends the results are appended and, unless the budget is spent,
\* the next model call follows.
C4_UnknownToolStep ==
    /\ UnknownDispatched =>
          LET e == Last(dispatched')
          IN /\ e.called = None
             /\ e.kind = "return"
             /\ e.success = PyBool(FALSE)
             /\ e.error # None
             /\ Contains(e.error.v, "Unknown tool: ")
             /\ Contains(e.error.v, e.name)
             /\ pc' = "ExecutingTools"
             /\ Len(tool_results') = Len(tool_results) + 1
             /\ SubSeq(tool_results', 1, Len(tool_results)) = tool_results
             /\ Last(tool_results').tool_use_id = e.id
             /\ Last(tool_results').content.v["success"] = [j |-> "false"]
             /\ Last(tool_results').content.v["error"] = [j |-> "string", v |-> e.error.v]
    /\ (/\ pc = "ExecutingTools" /\ pc' \notin {"ExecutingTools", "Raised"}
        /\ \E i \in 1..Len(dispatched) :
             /\ dispatched[i].request = requests
             /\ dispatched[i].called = None) =>
          /\ messages' = Append(messages, Message("user", PyList(tool_results)))
          /\ \E i \in 1..Len(tool_results) :
                /\ tool_results[i].content.v["error"].j = "string"
                /\ Contains(tool_results[i].content.v["error"].v, "Unknown tool: ")
          /\ iteration' = iteration + 1
          /\ IF iteration' < 10 THEN pc' = "AwaitingModel" ELSE pc' = "Exhausted"

\* C4, over every step of run_agent: dispatching an unregistered tool name
\* invokes nothing, yields the "Unknown tool" failure in the tool_result
\* block of the request and leaves the loop running.
C4_UnknownTool == [][C4_UnknownToolStep]_vars

C4_Witness ==
    /\ pc = "AwaitingModel"
    /\ requests = 2
    /\ Len(dispatched) = 3
    /\ dispatched[3].request = 2
    /\ dispatched[3].called = None
    /\ dispatched[2].called # None
    /\ \E i \in 1..Len(Last(messages).content.v) :
          /\ Last(messages).content.v[i].tool_use_id = dispatched[3].id
          /\ Last(messages).content.v[i].content.v["error"].j = "string"

\* the texts of the text blocks of a content list, joined in order
RECURSIVE TextsJoined(_)
TextsJoined(texts) ==
    IF Len(texts) = 0 THEN << >>
    ELSE TextsJoined(SubSeq(texts, 1, Len(texts) - 1)) \o Last(texts).text

\* C5: on end_turn run_agent returns the texts of the text blocks of the
\* response joined in block order; other blocks are skipped, and with no
\* text block (or no block at all) the result is the empty string.
C5_EndTurnText ==
    (response # None /\ response.stop_reason = "end_turn") =>
        /\ pc = "Done"
        /\ outcome = Return(TextsJoined(SelectSeq(response.content, IsText)))
        /\ (\A i \in 1..Len(response.content) : ~IsText(response.content[i])) =>
              outcome = Return(<< >>)

C5_Witness ==
    /\ pc = "Done"
    /\ response.stop_reason = "end_turn"
    /\ Len(response.content) = 3
    /\ response.content[1] = TextBlock(<<"A">>)
    /\ IsToolUse(response.content[2])
    /\ response.content[3] = TextBlock(<<"B">>)
    /\ outcome = Return(<<"A", "B">>)

\* C6: on a stop reason other than tool_use and end_turn run_agent stops at
\* once in Done and returns a diagnostic naming the reason; it appends
\* nothing, dispatches no tool of that response, raises nothing and makes no
\* further model request.
C6_UnexpectedStop ==
    (response # None /\ response.stop_reason \notin {"tool_use", "end_turn"}) =>
        /\ pc = "Done"
        /\ outcome.kind = "return"
        /\ Contains(outcome.value, "Unexpected stop reason: ")
        /\ Contains(outcome.value, response.stop_reason)
        /\ messages = sent
        /\ \A i \in 1..Len(dispatched) : dispatched[i].request # requests
        /\ ~ENABLED Next

C6_Witness ==
    /\ pc = "Done"
    /\ response.stop_reason = "max_tokens"
    /\ requests = 3
    /\ \E i \in 1..Len(response.content) : IsToolUse(response.content[i])
    /\ outcome = Return(<<"Unexpected stop reason: ", "max_tokens">>)

\* a tool was run and returned a failure
ToolFailure(e) == e.called # None /\ e.kind = "return" /\ e.success = PyBool(FALSE)

\* C7: a tool that fails (returns success=false) does not end the loop:
\* the failure, with its message, is serialized into the tool_result block
\* carrying the id of the request, and the message list of the next round
\* trip holds that block.
C7_FailureStep ==
    (Len(dispatched') = Len(dispatched) + 1 /\ ToolFailure(Last(dispatched'))) =>
        LET e == Last(dispatched')
        IN /\ pc' = "ExecutingTools"
           /\ e.error # None
           /\ Len(tool_results') = Len(tool_results) + 1
           /\ Last(tool_results').tool_use_id = e.id
           /\ Last(tool_results').content.v["success"] = [j |-> "false"]
           /\ Last(tool_results').content.v["error"] = [j |-> "string", v |-> e.error.v]

C7_FailureSent ==
    \A i \in 1..Len(dispatched) :
        (ToolFailure(dispatched[i]) /\ dispatched[i].request < requests) =>
            LET e == dispatched[i]
                results == sent[2 * e.request + 1]
            IN /\ results.role = "user"
               /\ \E b \in 1..Len(results.content.v) :
                     /\ results.content.v[b].tool_use_id = e.id
                     /\ results.content.v[b].content.v["success"] = [j |-> "false"]
                     /\ results.content.v[b].content.v["error"] =
                            [j |-> "string", v |-> e.error.v]

\* C7, over every step and state of run_agent: a failed tool execution
\* keeps the loop running, is serialized into the tool_result block of its
\* request and is in the message list of the next round trip.
C7_ToolFailureFedBack ==
    /\ [][C7_FailureStep]_vars
    /\ []C7_FailureSent

C7_Witness ==
    /\ \E i \in 1..Len(dispatched) :
          /\ ToolFailure(dispatched[i])
          /\ dispatched[i].request < requests
          /\ Contains(dispatched[i].error.v, "Failed to fetch weather data: ")
    /\ Last(sent).role = "user"
    /\ Len(sent) > 1

----------------------------------------------------------------------------
(* Termination, the transcript and the order of a turn (Spec).             *)

\* every process_tool_call call made so far returned
AllToolsReturned == \A i \in DOMAIN dispatched : dispatched[i].kind = "return"

\* C12: as long as every tool outcome returns, run_agent makes at most
\* MAX_ITERATIONS requests, never ends by raising, asks the model only
\* within the budget, stops only in Done or Exhausted, there with a str to
\* return, and is Exhausted exactly when
\* MAX_ITERATIONS responses, all of them tool_use, were received and handled.
C12_TerminatesWithinBudget ==
    AllToolsReturned =>
        /\ requests <= MAX_ITERATIONS
        /\ pc # "Raised"
        /\ pc = "AwaitingModel" => requests < MAX_ITERATIONS
        /\ pc \in {"Done", "Exhausted"} <=> (outcome # None /\ outcome.kind = "return")
        /\ pc = "Exhausted" <=>
              /\ requests = MAX_ITERATIONS
              /\ iteration = MAX_ITERATIONS
              /\ response.stop_reason = "tool_use"

\* what holds of every invocation that has not raised
C12_BudgetUnlessRaised ==
    pc # "Raised" =>
        /\ requests <= MAX_ITERATIONS
        /\ pc = "AwaitingModel" => requests < MAX_ITERATIONS
        /\ pc \in {"Done", "Exhausted"} <=> (outcome # None /\ outcome.kind = "return")
        /\ pc = "Exhausted" <=>
              /\ requests = MAX_ITERATIONS
              /\ iteration = MAX_ITERATIONS
              /\ response.stop_reason = "tool_use"

\* C13: every step of run_agent leaves the messages it had where they were
\* and adds at most one at the end; a message is added only when a tool_use
\* response is taken up (line 303) and when the results of a round are
\* complete (line 330), never while a tool is dispatched.
C13_AppendOnlyStep ==
    /\ Len(messages') \in {Len(messages), Len(messages) + 1}
    /\ SubSeq(messages', 1, Len(messages)) = messages
    /\ Len(messages') = Len(messages) + 1 =>
          \/ /\ pc = "AwaitingModel"
             /\ response'.stop_reason = "tool_use"
             /\ Last(messages') = Message("assistant", PyList(response'.content))
          \/ /\ pc = "ExecutingTools"
             /\ idx > Len(response.content)
             /\ Last(messages') = Message("user", PyList(tool_results))
    /\ dispatched' # dispatched => messages' = messages

C13_AppendOnly == [][C13_AppendOnlyStep]_vars

C13_Witness ==
    /\ Len(messages) = 5
    /\ pc = "AwaitingModel"
    /\ Len(dispatched) >= 2
    /\ sent = SubSeq(messages, 1, 3)
    /\ messages[4].role = "assistant"
    /\ messages[5].role = "user"

InRound(r) == r.request = requests
\* the ids of the requests dispatched in the current round trip, in the
\* order of the dispatches
RoundIds ==
    LET round == SelectSeq(dispatched, InRound)
    IN [i \in 1..Len(round) |-> round[i].id]
IdsOf(blocks) == [i \in 1..Len(blocks) |-> blocks[i].id]
ResultIds(results) == [i \in 1..Len(results) |-> results[i].tool_use_id]
IsPrefix(s, t) == Len(s) <= Len(t) /\ SubSeq(t, 1, Len(s)) = s

\* C14, the states of a turn: while the tools of a tool_use response are
\* executed the assistant message is already the last of the transcript and
\* the requests dispatched so far are exactly the tool_use blocks passed so
\* far, in the order of the response, each once; the user message is there
\* only once all of them were dispatched and carries their results; a run
\* cut short by an exception dispatched a prefix of the requests.
C14_TurnOrderInv ==
    /\ Cardinality({dispatched[i].id : i \in DOMAIN dispatched}) = Len(dispatched)
    /\ \A i \in DOMAIN dispatched : dispatched[i].request \in 1..requests
    /\ pc = "ExecutingTools" =>
          /\ Last(messages) = Message("assistant", PyList(response.content))
          /\ RoundIds = IdsOf(ToolUses(SubSeq(response.content, 1, idx - 1)))
          /\ ResultIds(tool_results) = RoundIds
    /\ (pc \in {"AwaitingModel", "Exhausted"} /\ requests > 0) =>
          /\ messages[Len(messages) - 1] = Message("assistant", PyList(response.content))
          /\ Last(messages).role = "user"
          /\ RoundIds = IdsOf(ToolUses(response.content))
          /\ ResultIds(Last(messages).content.v) = RoundIds
    /\ pc = "Raised" =>
          /\ Last(messages) = Message("assistant", PyList(response.content))
          /\ IsPrefix(RoundIds, IdsOf(ToolUses(response.content)))

\* C14, the steps of a turn: one dispatch per step, of the block the loop
\* is at; a model request is made only when no tool is left to dispatch and
\* the transcript, which is what is sent, ends with a user message.
C14_TurnOrderStep ==
    /\ dispatched' # dispatched =>
          /\ Len(dispatched') = Len(dispatched) + 1
          /\ SubSeq(dispatched', 1, Len(dispatched)) = dispatched
          /\ pc = "ExecutingTools"
          /\ IsToolUse(response.content[idx])
          /\ Last(dispatched').id = response.content[idx].id
          /\ Last(dispatched').request = requests
          /\ Last(messages).role = "assistant"
    /\ requests' # requests =>
          /\ requests' = requests + 1
          /\ pc = "AwaitingModel"
          /\ Last(messages).role = "user"
          /\ sent' = messages

\* C14: within a tool_use turn the assistant message is appended first, the
\* requests are then dispatched one at a time in emission order, each once,
\* the user message with the results comes after the last dispatch and the
\* next model request after that.
C14_TurnOrder == []C14_TurnOrderInv /\ [][C14_TurnOrderStep]_vars

C14_Witness ==
    /\ pc = "AwaitingModel"
    /\ requests = 2
    /\ Len(response.content) = 3
    /\ IsToolUse(response.content[1])
    /\ IsText(response.content[2])
    /\ IsToolUse(response.content[3])
    /\ RoundIds = <<BlockId(2, 1), BlockId(2, 3)>>
    /\ Len(dispatched) = 3

\* C17, the step that takes up a response whose stop reason is not
\* tool_use: nothing is dispatched, the transcript stays what was sent and
\* run_agent is done, whatever blocks the response holds; and any step that
\* dispatches a tool does so for a tool_use response.
C17_TerminalStep ==
    /\ (pc = "AwaitingModel" /\ requests' # requests
            /\ response'.stop_reason # "tool_use") =>
          /\ messages' = messages
          /\ messages' = sent'
          /\ dispatched' = dispatched
          /\ tool_results' = tool_results
          /\ pc' = "Done"
          /\ outcome'.kind = "return"
    /\ dispatched' # dispatched => response.stop_reason = "tool_use"

\* C17, the states after it: no dispatch was made for the terminal response
C17_TerminalInv ==
    pc = "Done" =>
        /\ response.stop_reason # "tool_use"
        /\ messages = sent
        /\ \A i \in DOMAIN dispatched : dispatched[i].request < requests

\* C17: a terminal response (end_turn or any reason but tool_use) has no
\* tool dispatched and nothing appended, even when it holds tool_use
\* blocks; tools are dispatched only under stop reason tool_use.
C17_TerminalResponse == [][C17_TerminalStep]_vars /\ []C17_TerminalInv

C17_Witness ==
    /\ pc = "Done"
    /\ requests = 2
    /\ response.stop_reason = "end_turn"
    /\ \E i \in DOMAIN response.content : IsToolUse(response.content[i])
    /\ Len(messages) = 3
    /\ Len(dispatched) = 1

\* the invocation stopped in Exhausted with the results of the last round
\* appended and not sent
LastRoundKept ==
    /\ outcome = Return(EXHAUSTED_MESSAGE)
    /\ Len(messages) = 2 * MAX_ITERATIONS + 1
    /\ messages[Len(messages) - 1] = Message("assistant", PyList(response.content))
    /\ Last(messages).role = "user"
    /\ ResultIds(Last(messages).content.v) = IdsOf(ToolUses(response.content))
    /\ RoundIds = IdsOf(ToolUses(response.content))
    /\ sent = SubSeq(messages, 1, Len(messages) - 2)
    /\ ~ENABLED Next

\* C18: once the MAX_ITERATIONS-th response is tool_use, run_agent executes
\* its tools and then stops in Exhausted, returning the exhaustion message,
\* with their results appended to the transcript and never sent.
C18_LastRoundExhausts ==
    (requests = MAX_ITERATIONS /\ response.stop_reason = "tool_use") =>
        /\ pc \in {"ExecutingTools", "Exhausted"}
        /\ pc = "Exhausted" => LastRoundKept

\* what holds of the last round when nothing raises in it
C18_LastRoundUnlessRaised ==
    (requests = MAX_ITERATIONS /\ response.stop_reason = "tool_use"
        /\ pc # "Raised") =>
        /\ pc \in {"ExecutingTools", "Exhausted"}
        /\ pc = "Exhausted" => LastRoundKept

\* the response in hand is a tool_use response without a tool_use block
NoToolUseBlock ==
    /\ requests > 0
    /\ response.stop_reason = "tool_use"
    /\ ToolUses(response.content) = << >>

\* C19, the states of such a round: nothing is dispatched or collected and
\* nothing raises; the loop passes over the blocks; afterwards the
\* transcript ends with the assistant message and a user message holding
\* the empty list, and one iteration is used up.
C19_EmptyRoundInv ==
    NoToolUseBlock =>
        /\ pc \in {"ExecutingTools", "AwaitingModel", "Exhausted"}
        /\ RoundIds = << >>
        /\ tool_results = << >>
        /\ pc = "ExecutingTools" =>
              /\ iteration = requests - 1
              /\ ENABLED (SkipBlock \/ AppendResults)
        /\ pc \in {"AwaitingModel", "Exhausted"} =>
              /\ iteration = requests
              /\ Len(messages) = Len(sent) + 2
              /\ messages[Len(messages) - 1] = Message("assistant", PyList(response.content))
              /\ Last(messages) = Message("user", PyList(<< >>))
              /\ (pc = "Exhausted") = (requests = MAX_ITERATIONS)

\* C19, the next request: it sends the transcript with the empty results
C19_EmptyRoundStep ==
    (NoToolUseBlock /\ requests' = requests + 1) =>
        /\ sent' = messages
        /\ Last(sent') = Message("user", PyList(<< >>))

\* C19: a tool_use response with no tool_use block dispatches nothing; the
\* assistant message and a user message with the empty list of results are
\* appended and the loop goes on to the next model request, one iteration
\* of the budget used.
C19_EmptyRound == []C19_EmptyRoundInv /\ [][C19_EmptyRoundStep]_vars

C19_Witness ==
    /\ requests = 3
    /\ Len(sent) = 5
    /\ sent[4].role = "assistant"
    /\ ToolUses(sent[4].content.v) = << >>
    /\ Len(sent[4].content.v) = 2
    /\ sent[5] = Message("user", PyList(<< >>))
    /\ Len(dispatched) = 1

----------------------------------------------------------------------------
(* Properties of the interactive shell (SpecMain).                         *)

\* C15: no exception leaves main; the session ends only after an exit word
\* (goodbye printed) or a keyboard interrupt (printed as such); run_agent
\* runs only on the non-empty, non-exit line read last.
C15_ShellCatchesErrors ==
    /\ shell_pc # "Escaped"
    /\ shell_pc = "Ended" => presented \in {"Goodbye", "Interrupted"}
    /\ presented = "Goodbye" => lower(user_input) \in ExitWords
    /\ shell_pc = "Running" =>
          /\ user_input # << >>
          /\ lower(user_input) \notin ExitWords
          /\ messages[1] = Message("user", PyStr(user_input))

\* what holds of every session in which no exception has left main
C15_ShellUnlessEscaped ==
    shell_pc # "Escaped" =>
        /\ shell_pc \in {"Prompt", "Running", "Ended"}
        /\ shell_pc = "Ended" => presented \in {"Goodbye", "Interrupted"}
        /\ presented = "Goodbye" => lower(user_input) \in ExitWords
        /\ shell_pc = "Running" =>
              /\ user_input # << >>
              /\ lower(user_input) \notin ExitWords
              /\ messages[1] = Message("user", PyStr(user_input))

\* user, assistant, user, ... from the first message on
Alternates(transcript) ==
    \A i \in DOMAIN transcript :
        transcript[i].role = (IF i % 2 = 1 THEN "user" ELSE "assistant")

\* C16: in every invocation main makes, the transcript of the n-th model
\* request has 2(n-1)+1 messages, n-1 being the tool_use rounds completed
\* before it: the query of this invocation first, roles alternating, a user
\* message last; the invocation starts from the one message of its query.
C16_TranscriptShape ==
    shell_pc = "Running" =>
        /\ messages[1] = Message("user", PyStr(user_input))
        /\ requests = 0 => messages = <<Message("user", PyStr(user_input))>>
        /\ pc = "AwaitingModel" =>
              /\ iteration = requests
              /\ Len(messages) = 2 * iteration + 1
        /\ requests > 0 =>
              /\ Len(sent) = 2 * (requests - 1) + 1
              /\ sent[1] = Message("user", PyStr(user_input))
              /\ Alternates(sent)
              /\ Last(sent).role = "user"
              /\ IsPrefix(sent, messages)

C16_Witness ==
    /\ shell_pc = "Running"
    /\ invocations = 2
    /\ user_input = <<"Rain in Rome?">>
    /\ requests = 3
    /\ Len(sent) = 5
    /\ sent[4].role = "assistant"

====
